---------------------------- MODULE Spec2Model ----------------------------
(***************************************************************************)
(* Position lifecycle of the BTC Bollinger-band trading bot:               *)
(*   src/trade_manager.py  TradeManager (enter_long_trade,                 *)
(*                         check_trade_status, cancel_all_orders)          *)
(*   src/main.py           run_trading_cycle, main                         *)
(*   src/utils.py          save_trade_state, load_trade_state,             *)
(*                         add_bollinger_bands, check_trade_signal,        *)
(*                         get_trade_quantity                              *)
(*                                                                         *)
(* Units.  Prices are integers in cents (1/100 USDT), so that Python's     *)
(* round(x, 1) is a real conversion (to a multiple of 10 cents).           *)
(* Quantities are integers in 1/1000 BTC, the precision of round(q, 3).    *)
(* Order ids are positive integers; the empty id "" of the initial state   *)
(* is 0.  None is the empty sequence <<>> and a present value x is <<x>>.  *)
(* entry_time (a wall-clock string nobody reads) is left out.              *)
(*                                                                         *)
(* Every remote call has its own outcome.  A mutating call ends            *)
(*   "ok"        done on the exchange, response received;                  *)
(*   "rejected"  not done, the client raises;                              *)
(*   "lost"      done on the exchange, but the client raises (timeout).    *)
(* A remote call is a set-valued operator: the set of results it can       *)
(* produce from a world w.  A handler is an action that makes its calls,   *)
(* each with every outcome, and returns.                                   *)
(***************************************************************************)
EXTENDS Integers, Sequences, FiniteSets, TLC

VARIABLES
    trade_state,     \* TradeManager.trade_state (in memory)
    store,           \* trade_state.json: <<>> when absent, <<record>> otherwise
    open_orders,     \* the exchange's open orders for BTCUSDT
    position,        \* the exchange's BTCUSDT position, 1/1000 BTC, long > 0
    next_id,         \* the exchange's next order id
    calls,           \* the calls made by the last operation, in order
    last_op,         \* the last operation that returned
    last_ret,        \* what it returned
    trade_complete,  \* run_trading_cycle's local trade_complete
    pre_in_trade,    \* is_in_trade() when the last operation was called
    pre_persisted,   \* whether the store said in_trade = true at that time
    process          \* the bot's process: "running", "stopped" (killed or
                     \* not yet started) or "terminated" (main returned)

vars == <<trade_state, store, open_orders, position, next_id, calls,
          last_op, last_ret, trade_complete, pre_in_trade,
          pre_persisted, process>>

----------------------------------------------------------------------------
(* Bounds and configuration *)

\* The exchange issues at most this many order ids in a run.
MaxOrders == 4

\* config.get('STOP_LOSS_POINTS', 100): 100 USDT, in cents.
STOP_LOSS_POINTS == 10000

\* config.get('TRADING_CAPITAL', 5000), USDT.
TRADING_CAPITAL == 5000

\* config.get('LEVERAGE', 10).
LEVERAGE == 10

\* config.get('MIN_BOLLINGER_WIDTH', 300): 300 USDT, in cents.
MIN_BOLLINGER_WIDTH == 30000

\* config.get('BOLLINGER_PERIOD', 10).
BOLLINGER_PERIOD == 10

\* config.get('BOLLINGER_STD', 1.5), in tenths.
BOLLINGER_STD == 15

\* run_trading_cycle's `len(data) < 20`.
MinCandles == 20

\* get_trade_quantity's fallback 0.001 BTC.
FallbackQuantity == 1

\* Ticker prices the exchange may report: 50000.00 and 100000.07 USDT.
Prices == {5000000, 10000007}

None == <<>>
Some(x) == <<x>>
Val(opt) == opt[1]

----------------------------------------------------------------------------
(* Pure helpers *)

\* Python round(x, 1) on a price in cents: the nearest multiple of 10 cents,
\* a tie going to the even tenth.
Round1(x) ==
    LET r == x % 10
        lo == x - r
    IN  IF r < 5 THEN lo
        ELSE IF r > 5 THEN lo + 10
        ELSE IF (lo \div 10) % 2 = 0 THEN lo ELSE lo + 10

\* round(n / d, 0) for n, d > 0, a tie going to the even integer.
RoundDiv(n, d) ==
    LET q == n \div d
        r == n % d
    IN  IF 2 * r < d THEN q
        ELSE IF 2 * r > d THEN q + 1
        ELSE IF q % 2 = 0 THEN q ELSE q + 1

\* A faulty variant: the quantity is cut to 3 decimal places.
Quantity3_Truncates(trade_amount, btc_price) ==
    LET n == trade_amount * 1000
        q == n \div btc_price
        r == n % btc_price
    IN  100 * q + (100 * r) \div btc_price

\* round(trade_amount / btc_price, 3) in 1/1000 BTC: trade_amount in USDT,
\* btc_price in cents.  100000 * trade_amount / btc_price, computed in two
\* steps to stay within 32 bits.
Quantity3(trade_amount, btc_price) ==
    LET n == trade_amount * 1000
        q == n \div btc_price
        r == n % btc_price
    IN  100 * q + RoundDiv(100 * r, btc_price)

\* load_trade_state's initial_state: it has no stop_loss_price, target_price.
InitialState ==
    [in_trade |-> FALSE, entry_price |-> 0, quantity |-> 0,
     market_order_id |-> 0, stop_loss_order_id |-> 0, target_order_id |-> 0]

\* A world: the manager's state, the store, the exchange and the call log.
World ==
    [trade_state |-> trade_state, store |-> store, open_orders |-> open_orders,
     position |-> position, next_id |-> next_id, calls |-> <<>>]

\* One entry of the call log: the call, its argument (an order id or a
\* quantity, 0 when it has none) and how it ended ("" for a local call).
Log(w, call, arg, out) ==
    [w EXCEPT !.calls = Append(@, [call |-> call, arg |-> arg, out |-> out])]

\* The persisted record says in_trade = true.
PersistedInTrade(file) == file # None /\ Val(file).in_trade

\* The manager holds a trade_state that says in_trade = true.
InTrade(state) == state # None /\ state.in_trade

\* The operation the program is in: its name, in a trading cycle the local
\* trade_complete, and whether the process may be killed while it runs.
Context(op) == [op |-> op, tc |-> "unset", may_stop |-> FALSE]

\* The operation of ctx ends in the world w with the result ret, and the
\* process is left in the state proc.
Ends(ctx, w, ret, proc) ==
    /\ trade_state' = w.trade_state
    /\ store' = w.store
    /\ open_orders' = w.open_orders
    /\ position' = w.position
    /\ next_id' = w.next_id
    /\ calls' = w.calls
    /\ last_op' = ctx.op
    /\ last_ret' = ret
    /\ trade_complete' = ctx.tc
    /\ pre_in_trade' = InTrade(trade_state)
    /\ pre_persisted' = PersistedInTrade(store)
    /\ process' = proc

\* The operation of ctx returns ret and leaves the world w.
Return(ctx, w, ret) == Ends(ctx, w, ret, "running")

\* An exception leaves the operation of ctx.  Nothing between the operation
\* and main catches it: main's handler logs it and main returns.
Raise(ctx, w) == Ends(ctx, w, FALSE, "terminated")

\* The process is killed while the operation of ctx runs.
Halts(ctx, w) == ctx.may_stop /\ Ends(ctx, w, FALSE, "stopped")

----------------------------------------------------------------------------
(* The store *)

\* save_trade_state: the write replaces the file, or fails; the failure is
\* logged and swallowed.
SaveTradeState(w, state) ==
    { [w EXCEPT !.store = Some(state)], w }

\* load_trade_state: the worlds it can leave, trade_state being what it
\* returns.  A file that is there is read, or the read raises and None is
\* returned; without a file the initial state is saved and returned.
LoadTradeState(w) ==
    IF w.store # None
    THEN { [w EXCEPT !.trade_state = Val(w.store)],
           [w EXCEPT !.trade_state = None] }
    ELSE { [s EXCEPT !.trade_state = InitialState]
           : s \in SaveTradeState(w, InitialState) }

----------------------------------------------------------------------------
(* The exchange, as the client's calls see it *)

MarketOrder(quantity) ==
    [type |-> "MARKET", side |-> "BUY", quantity |-> quantity, price |-> 0]

\* closePosition='true': the stop closes the whole position, it has no quantity.
StopOrder(stop_price) ==
    [type |-> "STOP_MARKET", side |-> "SELL", quantity |-> 0, price |-> stop_price]

LimitOrder(quantity, price) ==
    [type |-> "LIMIT", side |-> "SELL", quantity |-> quantity, price |-> price]

\* The exchange takes an order: a market buy fills at once and adds to the
\* position, a stop or limit order rests in the open orders.
Accept(w, order) ==
    LET id == w.next_id
        w1 == [w EXCEPT !.next_id = @ + 1]
    IN  IF order.type = "MARKET"
        THEN [w1 EXCEPT !.position = @ + order.quantity]
        ELSE [w1 EXCEPT !.open_orders = @ \cup
                 {[orderId |-> id, type |-> order.type,
                   quantity |-> order.quantity, price |-> order.price]}]

\* client.futures_create_order: the results, each with the outcome and the
\* orderId of the response (0 when there is no response).  The exchange
\* takes MaxOrders orders and rejects the rest.
FuturesCreateOrder(w, order) ==
    LET call == "futures_create_order:" \o order.type
    IN  { [w |-> Log(w, call, order.quantity, "rejected"),
           out |-> "rejected", orderId |-> 0] }
        \cup
        IF w.next_id > MaxOrders THEN {}
        ELSE { [w |-> Accept(Log(w, call, order.quantity, "ok"), order),
                out |-> "ok", orderId |-> w.next_id],
               [w |-> Accept(Log(w, call, order.quantity, "lost"), order),
                out |-> "lost", orderId |-> 0] }

\* client.futures_cancel_order(orderId)
FuturesCancelOrder(w, orderId) ==
    LET Cancelled(out) ==
            [Log(w, "futures_cancel_order", orderId, out)
                EXCEPT !.open_orders = {o \in @ : o.orderId # orderId}]
    IN  { [w |-> Cancelled("ok"), out |-> "ok"],
          [w |-> Log(w, "futures_cancel_order", orderId, "rejected"),
           out |-> "rejected"],
          [w |-> Cancelled("lost"), out |-> "lost"] }

\* client.futures_cancel_all_open_orders: it cancels the resting orders and
\* leaves the position as it is.
FuturesCancelAllOpenOrders(w) ==
    LET Cancelled(out) ==
            [Log(w, "futures_cancel_all_open_orders", 0, out)
                EXCEPT !.open_orders = {}]
    IN  { [w |-> Cancelled("ok"), out |-> "ok"],
          [w |-> Log(w, "futures_cancel_all_open_orders", 0, "rejected"),
           out |-> "rejected"],
          [w |-> Cancelled("lost"), out |-> "lost"] }

\* client.futures_get_open_orders: the open orders, or a failure (None).
FuturesGetOpenOrders(w) ==
    { [w |-> Log(w, "futures_get_open_orders", 0, "ok"),
       open_orders |-> Some(w.open_orders)],
      [w |-> Log(w, "futures_get_open_orders", 0, "rejected"),
       open_orders |-> None] }

\* client.get_symbol_ticker: a price, or a failure (None).
GetSymbolTicker(w) ==
    { [w |-> Log(w, "get_symbol_ticker", 0, "ok"), price |-> Some(p)]
      : p \in Prices }
    \cup { [w |-> Log(w, "get_symbol_ticker", 0, "rejected"), price |-> None] }

----------------------------------------------------------------------------
(* Candles, bands and the signal *)

\* A candle of the exchange (prices in cents) with the columns that
\* add_bollinger_bands adds to it; has_bands tells whether these columns
\* are defined (present and not NaN).  A series is a sequence of candles,
\* the latest one last.
Candle(open, high, low, close) ==
    [open |-> open, high |-> high, low |-> low, close |-> close,
     SMA |-> 0, STD |-> 0, Lower_Band |-> 0, Upper_Band |-> 0,
     has_bands |-> FALSE]

\* The price the fetched series move around, 50000.00.
KlineCentre == 5000000

\* The shapes <<swing, dip>> of the fetched series: wide bands that the
\* latest low touches, narrow bands, and wide bands that are not touched.
KlineShapes == { <<20000, 20000>>, <<5000, 20000>>, <<30000, 5000>> }

\* A series of the exchange: the closes alternate `swing` above and below
\* the centre and the low of every candle is `dip` below its close.
Klines(n, shape) ==
    [i \in 1..n |->
        LET close == KlineCentre + (IF i % 2 = 1 THEN shape[1] ELSE -shape[1])
        IN  Candle(KlineCentre, close + shape[1], close - shape[2], close)]

\* data.iloc[-1]
Last(data) == data[Len(data)]

\* Lengths of the series the exchange may return.
SeriesLengths == {5, 30}

\* The series the exchange returns.
FetchedSeries == { Klines(n, shape) : n \in SeriesLengths, shape \in KlineShapes }

\* fetch_btc_data(..., max_retries=10)
MAX_RETRIES == 10

\* time.sleep(2) between two attempts, in seconds.
RetryDelay == 2

\* fetch_btc_data as it is entered: retry_count = 0, nothing asked of the
\* exchange yet.  attempts are the get_historical_klines calls made, each
\* with its outcome and the candles it gave; sleeps are the delays slept;
\* returned tells that the function has returned, data what it returned.
FetchEntered(max_retries) ==
    [retry_count |-> 0, max_retries |-> max_retries, attempts |-> <<>>,
     sleeps |-> <<>>, returned |-> FALSE, data |-> None]

\* A faulty variant: a failed attempt is counted twice.
FetchAttempt_CountedTwice(loop) ==
    { [loop EXCEPT !.attempts = Append(@, [out |-> "ok", data |-> Some(data)]),
                   !.returned = TRUE, !.data = Some(data)]
      : data \in FetchedSeries }
    \cup { LET retry_count == loop.retry_count + 2
               failed == [loop EXCEPT !.retry_count = retry_count,
                            !.attempts = Append(@, [out |-> "rejected", data |-> None])]
           IN  IF retry_count < loop.max_retries
               THEN [failed EXCEPT !.sleeps = Append(@, RetryDelay)]
               ELSE [failed EXCEPT !.returned = TRUE, !.data = None] }

\* One pass through the body of `while retry_count < max_retries`: the
\* exchange gives the candles, which are returned, or the call raises,
\* retry_count is incremented and the function sleeps, or returns None when
\* the retries are used up.
FetchAttempt(loop) ==
    { [loop EXCEPT !.attempts = Append(@, [out |-> "ok", data |-> Some(data)]),
                   !.returned = TRUE, !.data = Some(data)]
      : data \in FetchedSeries }
    \cup { LET retry_count == loop.retry_count + 1
               failed == [loop EXCEPT !.retry_count = retry_count,
                            !.attempts = Append(@, [out |-> "rejected", data |-> None])]
           IN  IF retry_count < loop.max_retries
               THEN [failed EXCEPT !.sleeps = Append(@, RetryDelay)]
               ELSE [failed EXCEPT !.returned = TRUE, !.data = None] }

\* One step of fetch_btc_data: the loop is entered again, or left when
\* retry_count < max_retries is false; falling off the end returns None.
FetchStep(loop) ==
    IF loop.retry_count < loop.max_retries
    THEN FetchAttempt(loop)
    ELSE { [loop EXCEPT !.returned = TRUE, !.data = None] }

\* The loop run until the function returns.
RECURSIVE FetchRuns(_)
FetchRuns(loop) ==
    IF loop.returned THEN {loop}
    ELSE UNION { FetchRuns(next) : next \in FetchStep(loop) }

\* What fetch_btc_data can return with the default max_retries.
FetchReturns == { run.data : run \in FetchRuns(FetchEntered(MAX_RETRIES)) }

\* fetch_btc_data: a series of n candles (n is logged), or None after the
\* retries are used up.
FetchBtcData(w) ==
    { IF data = None
      THEN [w |-> Log(w, "fetch_btc_data", 0, "rejected"), data |-> None]
      ELSE [w |-> Log(w, "fetch_btc_data", Len(Val(data)), "ok"), data |-> data]
      : data \in FetchReturns }

\* The largest r with r * r <= n, between lo and hi.
RECURSIVE IsqrtBetween(_, _, _)
IsqrtBetween(n, lo, hi) ==
    IF lo = hi THEN lo
    ELSE LET mid == (lo + hi + 1) \div 2
         IN  IF mid * mid <= n THEN IsqrtBetween(n, mid, hi)
             ELSE IsqrtBetween(n, lo, mid - 1)

\* The square root, cut to an integer.
Isqrt(n) == IsqrtBetween(n, 0, 46340)

\* The price step of the exchange in cents (0.10): closes are multiples of
\* it, and the deviations below are counted in it.
Tick == 10

\* The window of n closes that ends at the i-th candle, as deviations from
\* its first close (mean and deviation of the closes are those of the
\* deviations, moved by that close): <<sum(d), sum(d^2)>> of the candles
\* from j on, added to <<s, q>>.
RECURSIVE Moments(_, _, _, _, _, _)
Moments(data, i, n, j, s, q) ==
    IF j > i THEN <<s, q>>
    ELSE LET d == (data[j].close - data[i - n + 1].close) \div Tick
         IN  Moments(data, i, n, j + 1, s + d, q + d * d)

\* The root of 100 * num / den, cut to an integer: the deviation in cents
\* of a variance num / den in ticks.
RootInCents(num, den) ==
    Isqrt(100 * (num \div den) + (100 * (num % den)) \div den)

\* A faulty variant: the deviation of the population (divisor n).
RollingStd_Population(data, i, n) ==
    LET m == Moments(data, i, n, i - n + 1, 0, 0)
    IN  RootInCents(n * m[2] - m[1] * m[1], n * n)

\* close.rolling(window=n).mean() at the i-th candle, cut to the cent.
RollingMean(data, i, n) ==
    LET m == Moments(data, i, n, i - n + 1, 0, 0)
    IN  data[i - n + 1].close + (Tick * m[1]) \div n

\* close.rolling(window=n).std() at the i-th candle, cut to the cent: the
\* sample deviation (divisor n - 1), the root of
\* (n * sum(d^2) - sum(d)^2) / (n * (n - 1)).
RollingStd(data, i, n) ==
    LET m == Moments(data, i, n, i - n + 1, 0, 0)
    IN  RootInCents(n * m[2] - m[1] * m[1], n * (n - 1))

\* The i-th candle with SMA, STD and the two bands of the window of n
\* closes that ends at it; std_dev is in tenths.
BandsAt(data, i, n, std_dev) ==
    LET SMA == RollingMean(data, i, n)
        STD == RollingStd(data, i, n)
    IN  [data[i] EXCEPT !.SMA = SMA, !.STD = STD,
                        !.Upper_Band = SMA + (STD * std_dev) \div 10,
                        !.Lower_Band = SMA - (STD * std_dev) \div 10,
                        !.has_bands = TRUE]

\* A faulty variant: the window is taken to be full one candle early.
AddBollingerBands_WindowOffByOne(data, period, std_dev) ==
    [i \in DOMAIN data |->
        LET n == IF i >= period THEN period ELSE period - 1
        IN  IF i >= period - 1 /\ n >= 2 THEN BandsAt(data, i, n, std_dev)
            ELSE data[i]]

\* add_bollinger_bands: the rolling window of `period` closes that ends at
\* the i-th candle is full, and its mean and deviation defined, from the
\* period-th candle on; before that SMA, STD and both bands are NaN.  The
\* deviation of a single close is NaN as well.
AddBollingerBands(data, period, std_dev) ==
    [i \in DOMAIN data |->
        IF i >= period /\ period >= 2 THEN BandsAt(data, i, period, std_dev)
        ELSE data[i]]

\* data = add_bollinger_bands(data, period, std_dev) with the configured
\* window and multiplier (those of enter_long_trade are the same), for each
\* series the exchange returns.
BandedKlines ==
    [data \in FetchedSeries |->
        AddBollingerBands(data, BOLLINGER_PERIOD, BOLLINGER_STD)]

\* A faulty variant: a width equal to the minimum passes the width test.
CheckTradeSignal_StrictWidth(data) ==
    IF Len(data) = 0 THEN FALSE
    ELSE
    LET latest   == Last(data)
        bb_width == latest.Upper_Band - latest.Lower_Band
    IN  IF latest.has_bands /\ bb_width < MIN_BOLLINGER_WIDTH THEN FALSE
        ELSE IF latest.has_bands /\ (latest.low <= latest.Lower_Band
                                     \/ latest.close <= latest.Lower_Band)
        THEN TRUE
        ELSE FALSE

\* A faulty variant: only the low is compared with the lower band.
CheckTradeSignal_LowOnly(data) ==
    IF Len(data) = 0 THEN FALSE
    ELSE
    LET latest   == Last(data)
        bb_width == latest.Upper_Band - latest.Lower_Band
    IN  IF latest.has_bands /\ bb_width <= MIN_BOLLINGER_WIDTH THEN FALSE
        ELSE IF latest.has_bands /\ latest.low <= latest.Lower_Band
        THEN TRUE
        ELSE FALSE

\* check_trade_signal on the latest candle: every comparison with an
\* undefined band is False; on an empty series iloc[-1] raises, which is
\* caught, and False is returned.
CheckTradeSignal(data) ==
    IF Len(data) = 0 THEN FALSE
    ELSE
    LET latest   == Last(data)
        bb_width == latest.Upper_Band - latest.Lower_Band
    IN  IF latest.has_bands /\ bb_width <= MIN_BOLLINGER_WIDTH THEN FALSE
        ELSE IF latest.has_bands /\ (latest.low <= latest.Lower_Band
                                     \/ latest.close <= latest.Lower_Band)
        THEN TRUE
        ELSE FALSE

\* get_trade_quantity: sized from the ticker price, 0.001 when the read fails.
GetTradeQuantity(w, trading_capital, leverage) ==
    LET trade_amount == trading_capital * leverage
    IN  { [w |-> t.w, btc_price |-> t.price,
           quantity |-> IF t.price = None THEN FallbackQuantity
                        ELSE Quantity3(trade_amount, Val(t.price))]
          : t \in GetSymbolTicker(Log(w, "get_trade_quantity", 0, "")) }

----------------------------------------------------------------------------
(* TradeManager.  A handler is an action: from the world w it is called in
   it makes its calls, each with every outcome, and returns. *)

\* is_in_trade.  On a trade_state of None (the store could not be read)
\* the subscript raises TypeError: its callers test for None first and Raise.
IsInTrade(w) == w.trade_state.in_trade

\* cancel_all_orders returns ret: to its caller when called directly; inside
\* enter_long_trade the value is dropped and the entry returns False.
CancelAllOrdersReturns(ctx, w, ret) ==
    Return(ctx, w, IF ctx.op = "cancel_all_orders" THEN ret ELSE FALSE)

\* cancel_all_orders: on success of the exchange call the state is reset and
\* saved; an exception of the exchange call is logged and False returned.
CancelAllOrders(w, ctx) ==
    \E c \in FuturesCancelAllOpenOrders(w) :
       IF c.out = "ok"
       THEN LET w1 == [c.w EXCEPT !.trade_state.in_trade = FALSE]
            IN  \E s \in SaveTradeState(w1, w1.trade_state) :
                   CancelAllOrdersReturns(ctx, s, TRUE)
       ELSE CancelAllOrdersReturns(ctx, c.w, FALSE)

\* The trade_state written on full success.
EntryState(e, target_order_id, target_price) ==
    [in_trade |-> TRUE, entry_price |-> e.entry_price,
     quantity |-> e.quantity, market_order_id |-> e.market_order_id,
     stop_loss_order_id |-> e.stop_loss_order_id,
     target_order_id |-> target_order_id,
     stop_loss_price |-> e.stop_price, target_price |-> target_price]

\* Update trade state, save it, return True.
RecordEntry(w, e, target_order_id, target_price, ctx) ==
    \/ Halts(ctx, w)
    \/ LET w1 == [w EXCEPT !.trade_state = EntryState(e, target_order_id, target_price)]
       IN  \E s \in SaveTradeState(w1, w1.trade_state) : Return(ctx, s, TRUE)

\* A faulty variant: the record is updated and saved before the take profit order is
\* placed.
PlaceTakeProfit_SavesFirst(w, e, latest_candle, ctx) ==
    LET target_price == Round1(latest_candle.Upper_Band)
        w1 == [w EXCEPT !.trade_state = EntryState(e, 0, target_price)]
    IN  \E s \in SaveTradeState(w1, w1.trade_state) :
        \E t \in FuturesCreateOrder(s, LimitOrder(e.quantity, target_price)) :
           /\ latest_candle.has_bands \/ t.out = "rejected"
           /\ IF t.out # "ok"
              THEN CancelAllOrders(t.w, ctx)
              ELSE RecordEntry(t.w, e, t.orderId, target_price, ctx)

\* 5. the take profit order at the upper band of latest_candle.  A candle
\* without bands gives the price NaN, which the exchange rejects.
PlaceTakeProfit(w, e, latest_candle, ctx) ==
    LET target_price == Round1(latest_candle.Upper_Band)
    IN  \E t \in FuturesCreateOrder(w, LimitOrder(e.quantity, target_price)) :
           /\ latest_candle.has_bands \/ t.out = "rejected"
           /\ IF t.out # "ok"
              THEN CancelAllOrders(t.w, ctx)
              ELSE RecordEntry(t.w, e, t.orderId, target_price, ctx)

\* 4. latest_candle, fetched now when the caller gave None; an empty result
\* raises into the outer handler, which returns False.
ResolveCandle(w, e, latest_candle, ctx) ==
    \/ Halts(ctx, w)
    \/ IF latest_candle # None
       THEN PlaceTakeProfit(w, e, Val(latest_candle), ctx)
       ELSE \E f \in FetchBtcData(w) :
               IF f.data = None
               THEN Return(ctx, f.w, FALSE)
               ELSE PlaceTakeProfit(f.w, e, Last(BandedKlines[Val(f.data)]), ctx)

\* 2.-3. stop price and stop loss order.
PlaceStopLoss(w, e0, latest_candle, ctx) ==
    LET stop_price == Round1(e0.entry_price - STOP_LOSS_POINTS)
    IN  \E s \in FuturesCreateOrder(w, StopOrder(stop_price)) :
           IF s.out # "ok"
           THEN CancelAllOrders(s.w, ctx)
           ELSE ResolveCandle(s.w,
                    [quantity |-> e0.quantity,
                     market_order_id |-> e0.market_order_id,
                     entry_price |-> e0.entry_price,
                     stop_price |-> stop_price,
                     stop_loss_order_id |-> s.orderId],
                    latest_candle, ctx)

\* The entry price read after the market order; a failed read raises into
\* the outer handler, which returns False.
ReadEntryPrice(w, quantity, market_order_id, latest_candle, ctx) ==
    \/ Halts(ctx, w)
    \/ \E t \in GetSymbolTicker(w) :
          IF t.price = None
          THEN Return(ctx, t.w, FALSE)
          ELSE PlaceStopLoss(t.w,
                   [quantity |-> quantity, market_order_id |-> market_order_id,
                    entry_price |-> Val(t.price)],
                   latest_candle, ctx)

\* A faulty variant: a failed market buy is submitted once more.
PlaceMarketOrder_Retries(w, quantity, latest_candle, ctx) ==
    \E m \in FuturesCreateOrder(w, MarketOrder(quantity)) :
       IF m.out = "ok"
       THEN ReadEntryPrice(m.w, quantity, m.orderId, latest_candle, ctx)
       ELSE \E m2 \in FuturesCreateOrder(m.w, MarketOrder(quantity)) :
               IF m2.out # "ok"
               THEN Return(ctx, m2.w, FALSE)
               ELSE ReadEntryPrice(m2.w, quantity, m2.orderId, latest_candle, ctx)

\* 1. the market buy; its exception is caught by the outer handler, which
\* returns False.
PlaceMarketOrder(w, quantity, latest_candle, ctx) ==
    \E m \in FuturesCreateOrder(w, MarketOrder(quantity)) :
       IF m.out # "ok"
       THEN Return(ctx, m.w, FALSE)
       ELSE ReadEntryPrice(m.w, quantity, m.orderId, latest_candle, ctx)

\* A faulty variant: no test of is_in_trade().
EnterLongTrade_NoGuard(w, quantity, latest_candle, ctx) ==
    PlaceMarketOrder(w, quantity, latest_candle, ctx)

\* enter_long_trade
EnterLongTrade(w, quantity, latest_candle, ctx) ==
    IF w.trade_state = None THEN Raise(ctx, w)
    ELSE IF IsInTrade(w)
    THEN Return(ctx, w, FALSE)
    ELSE PlaceMarketOrder(w, quantity, latest_candle, ctx)

----------------------------------------------------------------------------
(* update_trailing_stop *)

\* The new stop is recorded and saved; True is returned.
RecordTrailingStop(w, stop_loss_order_id, new_stop_price, ctx) ==
    LET w1 == [w EXCEPT !.trade_state.stop_loss_order_id = stop_loss_order_id,
                        !.trade_state.stop_loss_price = new_stop_price]
    IN  \E s \in SaveTradeState(w1, w1.trade_state) : Return(ctx, s, TRUE)

\* The existing stop is cancelled and then the new one placed; an exception
\* of either call is caught by the handler, which logs it and returns False.
ReplaceStopLoss(w, new_stop_price, ctx) ==
    \E c \in FuturesCancelOrder(w, w.trade_state.stop_loss_order_id) :
       IF c.out # "ok"
       THEN Return(ctx, c.w, FALSE)
       ELSE \E n \in FuturesCreateOrder(c.w, StopOrder(new_stop_price)) :
               IF n.out # "ok"
               THEN Return(ctx, n.w, FALSE)
               ELSE RecordTrailingStop(n.w, n.orderId, new_stop_price, ctx)

\* update_trailing_stop: the stop is moved to STOP_LOSS_POINTS below the
\* current price when that is higher than the stop there is.
UpdateTrailingStop(w, ctx) ==
    IF w.trade_state = None THEN Raise(ctx, w)
    ELSE IF ~IsInTrade(w) THEN Return(ctx, w, FALSE)
    ELSE \E t \in GetSymbolTicker(w) :
            IF t.price = None
            THEN Return(ctx, t.w, FALSE)
            ELSE LET new_stop_price == Round1(Val(t.price) - STOP_LOSS_POINTS)
                 IN  IF new_stop_price > t.w.trade_state.stop_loss_price
                     THEN ReplaceStopLoss(t.w, new_stop_price, ctx)
                     ELSE Return(ctx, t.w, FALSE)

----------------------------------------------------------------------------
(* run_trading_cycle, after the reconcile *)

\* A faulty variant: a series of any length goes on to the indicator.
SignalPath_NoLengthGate(w, ctx) ==
    \E f \in FetchBtcData(w) :
       IF f.data = None
       THEN Return(ctx, f.w, FALSE)
       ELSE LET data == BandedKlines[Val(f.data)]
                w1   == Log(Log(f.w, "add_bollinger_bands", 0, ""),
                            "check_trade_signal", 0, "")
            IN  IF ~CheckTradeSignal(data)
                THEN Return(ctx, w1, FALSE)
                ELSE \E g \in GetTradeQuantity(Log(w1, "latest_candle", Last(data), ""),
                                                 TRADING_CAPITAL, LEVERAGE) :
                        IF g.quantity <= 0
                        THEN Return(ctx, g.w, FALSE)
                        ELSE EnterLongTrade(
                                 Log(g.w, "enter_long_trade", g.quantity, ""),
                                 g.quantity, Some(Last(data)), ctx)

\* The signal path: fetch, bands, signal, sizing, entry; the candle of a
\* signal is written to the log.  The cycle returns nothing; the value
\* recorded for it is enter_long_trade's success.
SignalPath(w, ctx) ==
    \E f \in FetchBtcData(w) :
       IF f.data = None \/ Len(Val(f.data)) < MinCandles
       THEN Return(ctx, f.w, FALSE)
       ELSE LET data == BandedKlines[Val(f.data)]
                w1   == Log(Log(f.w, "add_bollinger_bands", 0, ""),
                            "check_trade_signal", 0, "")
            IN  IF ~CheckTradeSignal(data)
                THEN Return(ctx, w1, FALSE)
                ELSE \E g \in GetTradeQuantity(Log(w1, "latest_candle", Last(data), ""),
                                                 TRADING_CAPITAL, LEVERAGE) :
                        IF g.quantity <= 0
                        THEN Return(ctx, g.w, FALSE)
                        ELSE EnterLongTrade(
                                 Log(g.w, "enter_long_trade", g.quantity, ""),
                                 g.quantity, Some(Last(data)), ctx)

\* A faulty variant: no early return while the trade is still active.
AfterReconcile_NoReturn(w, trade_is_complete, ctx) ==
    SignalPath(w, [ctx EXCEPT !.tc = IF trade_is_complete THEN "True" ELSE "False"])

\* A faulty variant: a cycle that found the trade complete returns too, and
\* leaves the signal to the next cycle.
AfterReconcile_ReturnsWhenComplete(w, trade_is_complete, ctx) ==
    Return([ctx EXCEPT !.tc = IF trade_is_complete THEN "True" ELSE "False"],
           w, FALSE)

\* `if trade_complete: ... else: return`, then the signal path.
AfterReconcile(w, trade_is_complete, ctx) ==
    IF trade_is_complete
    THEN SignalPath(w, [ctx EXCEPT !.tc = "True"])
    ELSE Return([ctx EXCEPT !.tc = "False"], w, FALSE)

----------------------------------------------------------------------------
(* check_trade_status *)

\* check_trade_status returns ret: to its caller when called directly, into
\* run_trading_cycle's trade_complete otherwise.
CheckTradeStatusReturns(ctx, w, ret) ==
    IF ctx.op = "run_trading_cycle"
    THEN AfterReconcile(w, ret, ctx)
    ELSE Return(ctx, w, ret)

\* open_order_ids = [order['orderId'] for order in open_orders]
OpenOrderIds(orders) == { o.orderId : o \in orders }

\* Mark the trade complete: in_trade = False, save, return True.
MarkComplete(w, ctx) ==
    LET w1 == [w EXCEPT !.trade_state.in_trade = FALSE]
    IN  \E s \in SaveTradeState(w1, w1.trade_state) :
           CheckTradeStatusReturns(ctx, s, TRUE)

\* The cancellation of the sibling order: its failure is logged and ignored.
CancelSibling(w, orderId, ctx) ==
    \E c \in FuturesCancelOrder(w, orderId) : MarkComplete(c.w, ctx)

\* The logger lines that tell the three completing cases apart.
BOTH_GONE        == "logger.info:Both take profit and stop loss orders are gone"
STOP_TRIGGERED   == "logger.info:Stop loss was triggered"
TARGET_TRIGGERED == "logger.info:Take profit was triggered"

\* A faulty variant: case 3 tests only that the stop loss is still open.
Reconcile_Case3WithoutTargetTest(w, open_order_ids, ctx) ==
    LET target_id == w.trade_state.target_order_id
        stop_id   == w.trade_state.stop_loss_order_id
    IN  IF target_id \notin open_order_ids /\ stop_id \notin open_order_ids
        THEN MarkComplete(Log(w, BOTH_GONE, 0, ""), ctx)
        ELSE IF stop_id \notin open_order_ids /\ target_id \in open_order_ids
        THEN CancelSibling(Log(w, STOP_TRIGGERED, 0, ""), target_id, ctx)
        ELSE IF stop_id \in open_order_ids
        THEN CancelSibling(Log(w, TARGET_TRIGGERED, 0, ""), stop_id, ctx)
        ELSE CheckTradeStatusReturns(ctx, w, FALSE)

\* check_trade_status, once the open orders were read.
Reconcile(w, open_order_ids, ctx) ==
    LET target_id == w.trade_state.target_order_id
        stop_id   == w.trade_state.stop_loss_order_id
    IN  IF target_id \notin open_order_ids /\ stop_id \notin open_order_ids
        THEN MarkComplete(Log(w, BOTH_GONE, 0, ""), ctx)
        ELSE IF stop_id \notin open_order_ids /\ target_id \in open_order_ids
        THEN CancelSibling(Log(w, STOP_TRIGGERED, 0, ""), target_id, ctx)
        ELSE IF target_id \notin open_order_ids /\ stop_id \in open_order_ids
        THEN CancelSibling(Log(w, TARGET_TRIGGERED, 0, ""), stop_id, ctx)
        ELSE CheckTradeStatusReturns(ctx, w, FALSE)

\* A faulty variant: a failed open-orders query counts as no open orders.
CheckTradeStatus_FailedQueryIsEmpty(w, ctx) ==
    IF w.trade_state = None THEN Raise(ctx, w)
    ELSE IF ~IsInTrade(w)
    THEN CheckTradeStatusReturns(ctx, w, FALSE)
    ELSE \E q \in FuturesGetOpenOrders(w) :
            IF q.open_orders = None
            THEN Reconcile(q.w, {}, ctx)
            ELSE Reconcile(q.w, OpenOrderIds(Val(q.open_orders)), ctx)

\* check_trade_status
CheckTradeStatus(w, ctx) ==
    IF w.trade_state = None THEN Raise(ctx, w)
    ELSE IF ~IsInTrade(w)
    THEN CheckTradeStatusReturns(ctx, w, FALSE)
    ELSE \E q \in FuturesGetOpenOrders(w) :
            IF q.open_orders = None
            THEN CheckTradeStatusReturns(ctx, q.w, FALSE)
            ELSE Reconcile(q.w, OpenOrderIds(Val(q.open_orders)), ctx)

\* run_trading_cycle
RunTradingCycle(w, ctx) ==
    IF w.trade_state = None THEN Raise(ctx, w)
    ELSE IF IsInTrade(w)
    THEN CheckTradeStatus(Log(w, "check_trade_status", 0, ""), ctx)
    ELSE SignalPath(w, ctx)

----------------------------------------------------------------------------
(* The exchange's own steps *)

\* The stop order triggers: it leaves the open orders and closes the long
\* position (closePosition).
StopTriggers(o) ==
    /\ o \in open_orders /\ o.type = "STOP_MARKET"
    /\ open_orders' = open_orders \ {o}
    /\ position' = IF position > 0 THEN 0 ELSE position

\* The limit sell fills: it leaves the open orders and sells its quantity.
TargetFills(o) ==
    /\ o \in open_orders /\ o.type = "LIMIT"
    /\ open_orders' = open_orders \ {o}
    /\ position' = position - o.quantity

----------------------------------------------------------------------------
Init ==
    /\ trade_state = InitialState
    /\ store \in { Some(InitialState), None }
    /\ open_orders = {}
    /\ position = 0
    /\ next_id = 1
    /\ calls = <<>>
    /\ last_op = "init"
    /\ last_ret = FALSE
    /\ trade_complete = "unset"
    /\ pre_in_trade = FALSE
    /\ pre_persisted = FALSE
    /\ process = "running"

\* The quantities the sizer can deliver.
Quantities ==
    { Quantity3(TRADING_CAPITAL * LEVERAGE, p) : p \in Prices } \cup {FallbackQuantity}

\* The candles a caller can pass: None, or the last candle of a banded series
\* of 30 candles.
CallerCandles ==
    {None} \cup { Some(Last(BandedKlines[Klines(30, shape)])) : shape \in KlineShapes }

CallEnterLongTrade ==
    \E quantity \in Quantities, latest_candle \in CallerCandles :
       EnterLongTrade(World, quantity, latest_candle, Context("enter_long_trade"))

CallCheckTradeStatus ==
    CheckTradeStatus(World, Context("check_trade_status"))

CallCancelAllOrders ==
    CancelAllOrders(World, Context("cancel_all_orders"))

CallRunTradingCycle ==
    RunTradingCycle(World, Context("run_trading_cycle"))

CallUpdateTrailingStop ==
    UpdateTrailingStop(World, Context("update_trailing_stop"))

\* A step of the exchange between two operations.
Exchange ==
    /\ \E o \in open_orders : StopTriggers(o) \/ TargetFills(o)
    /\ last_op' = "exchange"
    /\ last_ret' = FALSE
    /\ trade_complete' = "unset"
    /\ calls' = <<>>
    /\ pre_in_trade' = InTrade(trade_state)
    /\ pre_persisted' = PersistedInTrade(store)
    /\ UNCHANGED <<trade_state, store, next_id, process>>

\* The manager's operations, called in any order.
Next ==
    \/ CallEnterLongTrade
    \/ CallCheckTradeStatus
    \/ CallCancelAllOrders
    \/ Exchange

Spec == Init /\ [][Next]_vars

\* The program as main runs it: trading cycles only.
NextCycle ==
    \/ CallRunTradingCycle
    \/ Exchange

SpecCycle == Init /\ [][NextCycle]_vars

\* A trading cycle whose reconcile read the open orders.
CycleWithOpenOrdersRead ==
    /\ CallRunTradingCycle
    /\ \E i \in DOMAIN calls' :
          calls'[i].call = "futures_get_open_orders" /\ calls'[i].out = "ok"

\* main's loop keeps invoking trading cycles, and the open-orders query
\* does not fail for ever.
SpecCycleFair ==
    /\ Init /\ [][NextCycle]_vars
    /\ WF_vars(CallRunTradingCycle)
    /\ SF_vars(CycleWithOpenOrdersRead)

----------------------------------------------------------------------------
(* The indicator and the signal evaluator, called on any series *)

\* The longest series handed to the indicator.
MaxSeriesLen == 3

\* The windows the indicator is called with.
SignalPeriods == {2, 3}

\* The lower band of the candles below, 50000.00.
SignalLowerBand == 5000000

\* A candle whose band columns hold the given values.
GivenBands(candle, Lower_Band, Upper_Band) ==
    [candle EXCEPT !.Lower_Band = Lower_Band, !.Upper_Band = Upper_Band]

\* Latest candles around the lower band and around the minimum width: low
\* below, at and above the band, close at, below and above it (also where
\* the low is above), the width one cent below, at and one cent above
\* MIN_BOLLINGER_WIDTH, and open and high above or below the band.
SignalCandles ==
    { GivenBands(Candle(oh[1], oh[2], lc[1], lc[2]),
                 SignalLowerBand, SignalLowerBand + width)
      : oh \in { <<5003000, 5010000>>, <<4995000, 4999000>> },
        lc \in { <<4990000, 5005000>>, <<5000000, 5005000>>, <<5001000, 5000000>>,
                 <<5001000, 4999000>>, <<5001000, 5002000>> },
        width \in { MIN_BOLLINGER_WIDTH - 1, MIN_BOLLINGER_WIDTH,
                    MIN_BOLLINGER_WIDTH + 1 } }

\* The candles before the latest one: a wide one that touches the band, or
\* a narrow one that does not.
EarlierCandles ==
    { GivenBands(Candle(5003000, 5010000, 4990000, 4995000), SignalLowerBand, 5200000),
      GivenBands(Candle(5003000, 5010000, 5001000, 5002000), SignalLowerBand, 5010000) }

\* The series with any band values check_trade_signal is called on, their
\* first period - 1 rows undefined.
SignalSeries ==
    { [i \in 1..n |-> [(IF i = n THEN c ELSE e) EXCEPT !.has_bands = (i >= period)]]
      : n \in 1..MaxSeriesLen, c \in SignalCandles, e \in EarlierCandles,
        period \in SignalPeriods }

\* The candles of the series the indicator is called on: closes 300.00
\* apart, the low far below the close or just below it.
IndicatorCandles ==
    { Candle(5003000, 5040000, close - dip, close)
      : close \in {5000000, 5030000}, dip \in {40000, 1000} }

\* Scenario A: ten candles, the closes constant at 100.00 and the last
\* one at 80.00.
ScenarioA ==
    [i \in 1..10 |-> IF i < 10 THEN Candle(10000, 10000, 10000, 10000)
                     ELSE Candle(10000, 10000, 8000, 8000)]

\* The series the indicator is called on.
IndicatorSeries ==
    UNION { [1..n -> IndicatorCandles] : n \in 1..MaxSeriesLen } \cup {ScenarioA}

\* The evaluator's own operations.
SignalOps == {"add_bollinger_bands", "check_trade_signal"}

\* data = add_bollinger_bands(data, period=period, std_dev=std_dev); the
\* banded series and the window are kept in the call log.  Neither function
\* reads or changes the manager or the exchange, so they are called on
\* every series from the initial state only.
CallAddBollingerBands ==
    /\ last_op = "init"
    /\ \E data \in IndicatorSeries, period \in SignalPeriods \cup {BOLLINGER_PERIOD} :
       Return(Context("add_bollinger_bands"),
              Log(World, "add_bollinger_bands",
                  [data |-> AddBollingerBands(data, period, BOLLINGER_STD),
                   period |-> period], ""),
              FALSE)

\* check_trade_signal(data), on the series just banded or on a series with
\* any band values (kept in the call log then).
CallCheckTradeSignal ==
    \/ /\ last_op = "add_bollinger_bands"
       /\ Return(Context("check_trade_signal"),
                 [World EXCEPT !.calls = calls],
                 CheckTradeSignal(calls[1].arg.data))
    \/ /\ last_op = "init"
       /\ \E data \in SignalSeries :
          Return(Context("check_trade_signal"),
                 Log(World, "check_trade_signal", [data |-> data, period |-> 0], ""),
                 CheckTradeSignal(data))

----------------------------------------------------------------------------
(* Entries and the trailing stop *)

NextTrail ==
    \/ CallEnterLongTrade
    \/ CallUpdateTrailingStop
    \/ Exchange

SpecTrail == Init /\ [][NextTrail]_vars

----------------------------------------------------------------------------
(* fetch_btc_data, one attempt at a time *)

\* The values of max_retries the function is called with.
MaxRetries == {0, 1, 2, 3, MAX_RETRIES}

\* Where fetch_btc_data is: in its loop, or returned.
FetchOp(loop) == IF loop.returned THEN "fetch_btc_data" ELSE "fetch_btc_data:loop"

\* The state of the function is kept as the one entry of the call log.
FetchAt(loop) ==
    Return(Context(FetchOp(loop)),
           Log(World, "fetch_btc_data", loop, ""), FALSE)

\* fetch_btc_data(client, limit, interval, max_retries) is called.
CallFetchBtcData ==
    /\ last_op = "init"
    /\ \E max_retries \in MaxRetries : FetchAt(FetchEntered(max_retries))

\* The function goes on by one step.
ContinueFetchBtcData ==
    /\ last_op = "fetch_btc_data:loop"
    /\ \E next \in FetchStep(calls[1].arg) : FetchAt(next)

NextFetch ==
    \/ CallFetchBtcData
    \/ ContinueFetchBtcData

\* The function, once called, keeps running: each call of the exchange
\* returns or raises.
SpecFetch == Init /\ [][NextFetch]_vars /\ WF_vars(ContinueFetchBtcData)

----------------------------------------------------------------------------
(* The sizer, called with any capital and leverage *)

\* The capitals (USDT) and leverages the sizer is called with.
Capitals == {7, 50, 300, 5000, 20000}
Leverages == {1, 3, 10, 20}

\* quantity = get_trade_quantity(client, trading_capital, leverage); the
\* arguments, the price read and the quantity returned are kept in the
\* call log.
CallGetTradeQuantity ==
    /\ last_op = "init"
    /\ \E trading_capital \in Capitals, leverage \in Leverages :
       \E g \in GetTradeQuantity(World, trading_capital, leverage) :
          Return(Context("get_trade_quantity"),
                 Log(g.w, "quantity",
                     [trading_capital |-> trading_capital, leverage |-> leverage,
                      btc_price |-> g.btc_price, quantity |-> g.quantity], ""),
                 FALSE)

NextSizer == CallGetTradeQuantity

SpecSizer == Init /\ [][NextSizer]_vars

----------------------------------------------------------------------------
(* The indicator, the evaluator and trading cycles *)

NextSignal ==
    \/ CallAddBollingerBands
    \/ CallCheckTradeSignal
    \/ CallRunTradingCycle

SpecSignal == Init /\ [][NextSignal]_vars

----------------------------------------------------------------------------
(* The process: main, started, killed and started again *)

\* Before the first start: no manager yet, no record or a FLAT one.
InitMain ==
    /\ trade_state = None
    /\ store \in { None, Some(InitialState) }
    /\ open_orders = {}
    /\ position = 0
    /\ next_id = 1
    /\ calls = <<>>
    /\ last_op = "init"
    /\ last_ret = FALSE
    /\ trade_complete = "unset"
    /\ pre_in_trade = FALSE
    /\ pre_persisted = FALSE
    /\ process = "stopped"

\* main up to its loop: TradeManager(client, config) loads the trade state
\* and sets the leverage, whose failure is logged and ignored.
StartMain ==
    /\ process # "running"
    /\ \E l \in LoadTradeState(Log(World, "load_trade_state", 0, "")) :
          Return(Context("main"), Log(l, "futures_change_leverage", 0, ""), TRUE)

\* One pass of main's loop at the scheduled minute.  Nothing in the loop
\* catches what run_trading_cycle raises.
MainCycle ==
    /\ process = "running"
    /\ RunTradingCycle(World, [Context("run_trading_cycle") EXCEPT !.may_stop = TRUE])

\* The process is killed between two cycles.
StopMain ==
    /\ process = "running"
    /\ Ends(Context("stop"), World, FALSE, "stopped")

NextMain ==
    \/ StartMain
    \/ MainCycle
    \/ StopMain
    \/ Exchange

SpecMain == InitMain /\ [][NextMain]_vars

----------------------------------------------------------------------------
(* What the last operation did, read from its call log *)

Made(call) == \E i \in DOMAIN calls : calls[i].call = call

MadeWith(call, outs) ==
    \E i \in DOMAIN calls : calls[i].call = call /\ calls[i].out \in outs

TimesMade(call) == Cardinality({ i \in DOMAIN calls : calls[i].call = call })

MARKET == "futures_create_order:MARKET"
STOP   == "futures_create_order:STOP_MARKET"
LIMIT  == "futures_create_order:LIMIT"

SubmittedAnyOrder == Made(MARKET) \/ Made(STOP) \/ Made(LIMIT)

Failed == {"rejected", "lost"}

EnterReturned == last_op = "enter_long_trade"

\* A stop order rests on the exchange.
LiveStop == \E o \in open_orders : o.type = "STOP_MARKET"

\* Both exit orders of the manager's trade are open on the exchange.
BothExitOrdersOpen ==
    /\ trade_state.in_trade
    /\ trade_state.stop_loss_order_id \in OpenOrderIds(open_orders)
    /\ trade_state.target_order_id \in OpenOrderIds(open_orders)

----------------------------------------------------------------------------
(* The claims *)

\* C1: enter_long_trade called while in_trade = true returns failure, makes
\* no call to the exchange (so submits no order) and leaves the in-memory
\* and the persisted Position, and the exchange, as they were.
C1_EnterWhileInPositionIsNoOp ==
    [][ (last_op' = "enter_long_trade" /\ trade_state.in_trade)
        => /\ last_ret' = FALSE
           /\ calls' = <<>>
           /\ trade_state' = trade_state
           /\ store' = store
           /\ open_orders' = open_orders
           /\ position' = position ]_vars

\* enter_long_trade was called while in position, with an order id still
\* left on the exchange to take an order.
C1_Witness ==
    /\ EnterReturned /\ pre_in_trade
    /\ trade_state.in_trade
    /\ next_id <= MaxOrders

\* C2 as stated: after every call to enter_long_trade that returns success
\* the persisted record has in_trade = true and holds this entry (the record
\* in memory), with stop and target order ids non-empty and distinct.
C2_SuccessIsPersisted ==
    (EnterReturned /\ last_ret)
    => /\ PersistedInTrade(store)
       /\ Val(store) = trade_state
       /\ Val(store).stop_loss_order_id # 0
       /\ Val(store).target_order_id # 0
       /\ Val(store).stop_loss_order_id # Val(store).target_order_id

\* C3 as stated: after every call to enter_long_trade that returns failure,
\* whatever the reason, the persisted in_trade is false.
C3_FailureLeavesPersistedFlat ==
    (EnterReturned /\ ~last_ret) => ~PersistedInTrade(store)

\* C3 amended: after every call to enter_long_trade that was made while the
\* persisted record was FLAT and returns failure, the persisted in_trade is
\* false.
C3_FailureFromFlatLeavesPersistedFlat ==
    (EnterReturned /\ ~last_ret /\ ~pre_persisted) => ~PersistedInTrade(store)

\* An entry from the persisted state FLAT failed at the take profit order,
\* after the market buy and the stop were placed.
C3_Witness ==
    /\ EnterReturned /\ ~last_ret /\ ~pre_persisted
    /\ MadeWith(LIMIT, Failed)
    /\ ~PersistedInTrade(store)

\* C4 as stated: when the stop submission fails after the market buy was
\* accepted, the exchange holds no long position without a stop order once
\* the call has returned.
C4_NoNakedPositionAfterStopFailure ==
    (EnterReturned /\ ~last_ret /\ MadeWith(STOP, Failed))
    => ~(position > 0 /\ ~LiveStop)

\* C5 as stated: when the target submission fails after the market buy and
\* the stop were accepted, the call returns failure with state FLAT, the
\* position flattened and the stop order cancelled.
C5_FlatAfterTargetFailure ==
    (EnterReturned /\ MadeWith(LIMIT, Failed))
    => /\ ~last_ret
       /\ ~trade_state.in_trade
       /\ position <= 0
       /\ ~LiveStop

\* C6 as stated: every failure of enter_long_trade once the market buy may
\* have been placed (the response to the market order lost, the price read
\* failed, the stop or the target submission failed) makes a cancel/close
\* attempt before the call returns failure.
C6_FailureAfterMarketBuyFlattens ==
    (EnterReturned /\ ~last_ret
       /\ \/ MadeWith(MARKET, {"lost"})
          \/ MadeWith("get_symbol_ticker", {"rejected"})
          \/ MadeWith(STOP, Failed)
          \/ MadeWith(LIMIT, Failed))
    => Made("futures_cancel_all_open_orders")

\* C7: enter_long_trade submits the market buy at most once; when that
\* submission fails it submits no stop and no target order, returns failure,
\* and leaves the in-memory state (FLAT) and the store as they were.
C7_MarketBuyOnceAndFailureAborts ==
    [][ last_op' = "enter_long_trade"
        => /\ TimesMade(MARKET)' <= 1
           /\ MadeWith(MARKET, Failed)'
              => /\ ~Made(STOP)' /\ ~Made(LIMIT)'
                 /\ last_ret' = FALSE
                 /\ ~trade_state'.in_trade
                 /\ trade_state' = trade_state
                 /\ store' = store ]_vars

\* The market buy of an entry failed.
C7_Witness ==
    /\ EnterReturned /\ MadeWith(MARKET, Failed)
    /\ next_id <= MaxOrders

\* The largest quantity of a single entry.
MaxEntryQuantity ==
    CHOOSE q \in Quantities : \A other \in Quantities : other <= q

\* C8 as stated: over any sequence of trading cycles the long exposure on
\* the exchange never exceeds the quantity of a single entry.
C8_SinglePosition == position <= MaxEntryQuantity

\* C9: a cycle that starts in position and whose reconcile reports the trade
\* still active makes no call but the reconcile and its open-orders query:
\* no fetch, no bands, no signal, no sizing, no entry, no order.
C9_EarlyReturnWhileInPosition ==
    (last_op = "run_trading_cycle" /\ pre_in_trade /\ trade_complete = "False")
    => /\ \A i \in DOMAIN calls :
             calls[i].call \in {"check_trade_status", "futures_get_open_orders"}
       /\ ~SubmittedAnyOrder
       /\ last_ret = FALSE

\* A cycle found both exit orders open and returned.
C9_Witness ==
    /\ last_op = "run_trading_cycle" /\ pre_in_trade /\ trade_complete = "False"
    /\ MadeWith("futures_get_open_orders", {"ok"})
    /\ BothExitOrdersOpen

\* C10: check_trade_status called while both exit orders are open returns
\* False, cancels nothing and leaves the in-memory and the persisted
\* Position (and the exchange) as they were, each time it is called.
C10_ReconcileBothOpenChangesNothing ==
    [][ (last_op' = "check_trade_status" /\ BothExitOrdersOpen)
        => /\ last_ret' = FALSE
           /\ ~Made("futures_cancel_order")'
           /\ trade_state' = trade_state
           /\ store' = store
           /\ open_orders' = open_orders
           /\ position' = position ]_vars

\* check_trade_status read the open orders, found both exit orders open
\* and returned False.
C10_Witness ==
    /\ last_op = "check_trade_status" /\ pre_in_trade /\ ~last_ret
    /\ MadeWith("futures_get_open_orders", {"ok"})
    /\ BothExitOrdersOpen

----------------------------------------------------------------------------
(* Reconcile, the store and the process *)

\* The exit order ids of the manager's trade that are open on the exchange.
OpenExitIds ==
    IF InTrade(trade_state)
    THEN {trade_state.stop_loss_order_id, trade_state.target_order_id}
             \cap OpenOrderIds(open_orders)
    ELSE {}

\* The order ids the last operation tried to cancel.
CancelAttempts ==
    { calls[i].arg : i \in { j \in DOMAIN calls : calls[j].call = "futures_cancel_order" } }

\* The persisted record is the FLAT record the manager holds.
PersistedFlat ==
    /\ trade_state # None /\ ~trade_state.in_trade
    /\ store = Some(trade_state)

\* check_trade_status was called in position and read the open orders.
ReconcileRan ==
    /\ last_op = "check_trade_status" /\ pre_in_trade
    /\ MadeWith("futures_get_open_orders", {"ok"})

\* C11 as stated: check_trade_status called in position with exactly one of
\* the two exit orders open tries to cancel that one and no other order,
\* marks the state FLAT, persists it and returns True.
C11_OneExitGoneCancelsSiblingAndPersistsFlat ==
    [][ (ReconcileRan' /\ Cardinality(OpenExitIds) = 1)
        => /\ CancelAttempts' = OpenExitIds
           /\ TimesMade("futures_cancel_order")' = 1
           /\ PersistedFlat'
           /\ last_ret' = TRUE ]_vars

\* C12 as stated: check_trade_status called in position with neither exit
\* order open marks the state FLAT, persists it and returns True, tries no
\* cancellation, and logs the line of this case and of no other.
C12_BothExitsGonePersistsFlatWithoutCancel ==
    [][ (ReconcileRan' /\ InTrade(trade_state) /\ OpenExitIds = {})
        => /\ PersistedFlat'
           /\ last_ret' = TRUE
           /\ CancelAttempts' = {}
           /\ Made(BOTH_GONE)'
           /\ ~Made(STOP_TRIGGERED)' /\ ~Made(TARGET_TRIGGERED)' ]_vars

\* C13 as stated: when the cancellation of the sibling order fails during
\* check_trade_status, the state is still marked FLAT and persisted and
\* True is returned.
C13_CancelFailureStillPersistsFlat ==
    (last_op = "check_trade_status" /\ MadeWith("futures_cancel_order", Failed))
    => /\ PersistedFlat
       /\ last_ret = TRUE

\* The fields of a FLAT and of an IN_POSITION record.
FlatFields == DOMAIN InitialState
PositionFields == FlatFields \cup {"stop_loss_price", "target_price"}

\* A record that is wholly FLAT or wholly IN_POSITION.
CompleteRecord(r) ==
    IF r.in_trade
    THEN /\ DOMAIN r = PositionFields
         /\ r.stop_loss_order_id # 0 /\ r.target_order_id # 0
    ELSE FlatFields \subseteq DOMAIN r

LifecycleOps == {"enter_long_trade", "check_trade_status", "cancel_all_orders"}

\* C14 as stated: after every lifecycle operation that returns, a failed
\* store write included, the persisted record is a complete FLAT or
\* IN_POSITION record whose in_trade is the manager's in_trade.
C14_StoreAgreesWithManager ==
    last_op \in LifecycleOps
    => /\ store # None
       /\ CompleteRecord(Val(store))
       /\ Val(store).in_trade = trade_state.in_trade

\* C15 as stated: no failure inside a trading cycle, a store that could not
\* be read at start-up included, ends the process: run_trading_cycle
\* returns and main's loop goes on.
C15_CycleFailureNeverEndsProcess ==
    last_op = "run_trading_cycle" => process # "terminated"

\* C16 as stated: at start-up the manager's state is the persisted record
\* when there is one, and the FLAT initial state, persisted at once, when
\* there is none; so the first cycle after a start in position, with both
\* persisted exit orders open, queries the open orders, finds both and
\* submits no order.
C16_StartupStateIsPersistedRecord ==
    [][ /\ last_op' = "main"
           => IF store # None
              THEN trade_state' = Val(store)
              ELSE trade_state' = InitialState /\ store' = Some(InitialState)
        /\ (/\ last_op = "main" /\ PersistedInTrade(store)
            /\ { Val(store).stop_loss_order_id, Val(store).target_order_id }
                  \subseteq OpenOrderIds(open_orders)
            /\ last_op' = "run_trading_cycle" /\ process' = "running"
            /\ MadeWith("futures_get_open_orders", {"ok"})')
           => /\ ~SubmittedAnyOrder'
              /\ trade_state' = Val(store)
              /\ position' = position ]_vars

\* The process was killed inside enter_long_trade after the market buy was
\* accepted and before the store write.
KilledMidEntry ==
    /\ process = "stopped" /\ last_op = "run_trading_cycle"
    /\ MadeWith(MARKET, {"ok"})

\* C17 as stated: when the process was killed after the market buy was
\* accepted and before the Position record was persisted, the store read of
\* the next start shows FLAT.
C17_RestartAfterMidEntryKillShowsFlat ==
    [][ (KilledMidEntry /\ last_op' = "main")
        => trade_state' # None /\ ~trade_state'.in_trade ]_vars

----------------------------------------------------------------------------
(* The signal evaluator *)

\* The series check_trade_signal was called on, the window it was banded
\* with, and its latest candle.
SignalData == calls[1].arg.data
SignalPeriod == calls[1].arg.period
Latest == Last(SignalData)

\* The width of the latest candle's bands, and whether it touches the
\* lower band.
Width == Latest.Upper_Band - Latest.Lower_Band
Touches == Latest.low <= Latest.Lower_Band \/ Latest.close <= Latest.Lower_Band

Evaluated == last_op = "check_trade_signal"

\* C18: on every banded series whose latest candle has a width at most
\* MIN_BOLLINGER_WIDTH (equality included) check_trade_signal returns False,
\* wherever low and close are.
C18_NarrowBandsNeverSignal ==
    (Evaluated /\ Latest.has_bands /\ Width <= MIN_BOLLINGER_WIDTH)
    => last_ret = FALSE

\* The latest candle is exactly MIN_BOLLINGER_WIDTH wide and its low is
\* below the lower band: no signal.
C18_Witness ==
    /\ Evaluated /\ Latest.has_bands
    /\ Width = MIN_BOLLINGER_WIDTH
    /\ Latest.low < Latest.Lower_Band
    /\ last_ret = FALSE

\* C19: on every banded series whose latest candle is wider than
\* MIN_BOLLINGER_WIDTH check_trade_signal returns True exactly when that
\* candle's low or close is at or below its lower band: the result is
\* fixed by these values, whatever the earlier candles, the open and the
\* high are.
C19_WideBandsSignalIffTouch ==
    (Evaluated /\ Latest.has_bands /\ Width > MIN_BOLLINGER_WIDTH)
    => (last_ret <=> Touches)

\* A signal from a close exactly at the lower band, with the low, the open
\* and the high above it and after an earlier candle that is too narrow.
C19_Witness ==
    /\ Evaluated /\ Latest.has_bands
    /\ Width = MIN_BOLLINGER_WIDTH + 1
    /\ Latest.close = Latest.Lower_Band
    /\ Latest.low > Latest.Lower_Band
    /\ Latest.open > Latest.Lower_Band /\ Latest.high > Latest.Lower_Band
    /\ Len(SignalData) = MaxSeriesLen
    /\ SignalData[1].Upper_Band - SignalData[1].Lower_Band < MIN_BOLLINGER_WIDTH
    /\ last_ret = TRUE

\* A trading cycle fetched a series shorter than the window.
CycleOnShortSeries ==
    /\ last_op = "run_trading_cycle"
    /\ \E i \in DOMAIN calls :
          /\ calls[i].call = "fetch_btc_data" /\ calls[i].out = "ok"
          /\ calls[i].arg < BOLLINGER_PERIOD

\* C20: add_bollinger_bands leaves the bands of the first period-1 candles
\* undefined, and check_trade_signal returns False whenever the bands of
\* the latest candle are undefined: on a series shorter than the window
\* every candle is without bands and there is no signal, and a trading
\* cycle that fetched such a series submits no order.
C20_NoSignalOnUndefinedBands ==
    /\ last_op \in SignalOps
       => \A i \in DOMAIN SignalData :
             i < SignalPeriod => ~SignalData[i].has_bands
    /\ (Evaluated /\ ~Latest.has_bands) => last_ret = FALSE
    /\ (Evaluated /\ Len(SignalData) < SignalPeriod)
       => /\ \A i \in DOMAIN SignalData : ~SignalData[i].has_bands
          /\ last_ret = FALSE
    /\ CycleOnShortSeries => ~SubmittedAnyOrder

\* A series one candle shorter than the window whose latest candle would
\* signal if the bands were taken from the candles there are: the closes
\* are 300.00 apart and the low is 400.00 below the close.
C20_Witness ==
    /\ Evaluated
    /\ Len(SignalData) = SignalPeriod - 1
    /\ Len(SignalData) >= 2
    /\ ~Latest.has_bands
    /\ SignalData[1].close - Latest.close = 30000
    /\ Latest.low = Latest.close - 40000
    /\ last_ret = FALSE

----------------------------------------------------------------------------
(* Scenario A of the indicator *)

\* check_trade_signal was called on Scenario A, banded with period 10 and
\* multiplier 1.5: ten closes, nine at 100.00 and the last at 80.00.
OnScenarioA ==
    /\ Evaluated
    /\ calls[1].call = "add_bollinger_bands"
    /\ SignalPeriod = 10
    /\ Len(SignalData) = 10
    /\ \A i \in 1..9 : SignalData[i].close = 10000
    /\ SignalData[10].close = 8000

\* C21 as stated: on Scenario A, with MIN_BOLLINGER_WIDTH 300, the width
\* of the bands is greater than 300 and check_trade_signal returns True.
C21_ScenarioASignals ==
    OnScenarioA => (Width > MIN_BOLLINGER_WIDTH /\ last_ret = TRUE)

\* C21, amended: on Scenario A the mean is 98.00 and the sample variance
\* 40, so the width 2 * 1.5 * sqrt(40) is 18.97 (its square is 360, here
\* in cents and cut), which is not greater than 300: check_trade_signal
\* returns False although the close is below the lower band.
C21_ScenarioAIsTooNarrow ==
    OnScenarioA
    => /\ Latest.has_bands
       /\ Latest.SMA = 9800
       /\ Width * Width <= 3600000 /\ (Width + 3) * (Width + 3) > 3600000
       /\ Width <= MIN_BOLLINGER_WIDTH
       /\ Latest.close <= Latest.Lower_Band
       /\ last_ret = FALSE

\* Scenario A was evaluated: a width of 18.96, the close below the lower
\* band, no signal.
C21_Witness ==
    /\ OnScenarioA
    /\ Width = 1896
    /\ Latest.close < Latest.Lower_Band
    /\ last_ret = FALSE

----------------------------------------------------------------------------
(* The sizer *)

\* get_trade_quantity was called on its own; what it was given, read and
\* returned.
Sized == last_op = "get_trade_quantity"
SizerCall == calls[Len(calls)].arg
PriceWasRead == Sized /\ SizerCall.btc_price # None

\* quantity * btc_price - 100000 * trade_amount, the quantity in 1/1000 BTC,
\* the price in cents and the amount in USDT: how far the notional value
\* of the quantity is from the amount, in 1/100000 USDT.  Computed in two
\* steps to stay within 32 bits.
NotionalError(quantity, btc_price, trade_amount) ==
    100 * ((quantity \div 100) * btc_price - 1000 * trade_amount)
    + (quantity % 100) * btc_price

\* C22: whenever the price read succeeds get_trade_quantity returns
\* trading_capital * leverage / price rounded to 3 decimal places: the
\* multiple of 0.001 BTC whose notional value is nearest to capital times
\* leverage (never further than the value of 0.0005 BTC), and 1.0 for a
\* capital of 5000, a leverage of 10 and a price of 50000.
C22_QuantityIsNotionalOverPrice ==
    PriceWasRead
    => LET price == Val(SizerCall.btc_price)
           err   == NotionalError(SizerCall.quantity, price,
                                  SizerCall.trading_capital * SizerCall.leverage)
       IN  /\ SizerCall.quantity >= 0
           /\ 2 * err <= price /\ 2 * err >= -price
           /\ (SizerCall.trading_capital = 5000 /\ SizerCall.leverage = 10
               /\ price = 5000000) => SizerCall.quantity = 1000

\* Capital 5000, leverage 10 and a price of 100000.07: 0.5 BTC, which is
\* rounded up from 0.4999...
C22_Witness ==
    /\ PriceWasRead
    /\ SizerCall.trading_capital = 5000 /\ SizerCall.leverage = 10
    /\ Val(SizerCall.btc_price) = 10000007
    /\ SizerCall.quantity = 500

\* In the trading cycle the sizer's price read failed: get_trade_quantity
\* returned its fallback.
SizerReadFailed ==
    \E i \in DOMAIN calls :
       /\ calls[i].call = "get_trade_quantity"
       /\ calls[i + 1].call = "get_symbol_ticker" /\ calls[i + 1].out # "ok"

\* C23: when the sizer's price read fails the trading cycle stops: it calls
\* enter_long_trade and submits an order only with a quantity that was
\* sized from capital, leverage and a price that was read, never with the
\* fallback of 0.001.
C23_FallbackQuantityStopsTheCycle ==
    (last_op = "run_trading_cycle" /\ SizerReadFailed)
    => /\ ~Made("enter_long_trade")
       /\ ~SubmittedAnyOrder

----------------------------------------------------------------------------
(* fetch_btc_data *)

\* fetch_btc_data is in its loop, or has returned; the state of its loop.
Fetching == last_op = "fetch_btc_data:loop"
Fetched == last_op = "fetch_btc_data"
FetchLoop == calls[1].arg

\* While fetch_btc_data runs and when it has returned: the exchange was
\* called at most max_retries times, every delay slept was the fixed one,
\* and no call was made after one that succeeded.  In the loop a delay was
\* slept after each call; on return no delay follows the last call, the
\* candles of a last call that succeeded are what is returned, and None is
\* returned only after max_retries calls that all failed.
FetchInBounds ==
    (Fetching \/ Fetched)
    => LET loop == FetchLoop
           n    == Len(loop.attempts)
       IN  /\ n <= loop.max_retries
           /\ \A i \in DOMAIN loop.sleeps : loop.sleeps[i] = RetryDelay
           /\ \A i \in 1..(n - 1) : loop.attempts[i].out = "rejected"
           /\ Fetching => /\ Len(loop.sleeps) = n
                          /\ \A i \in 1..n : loop.attempts[i].out = "rejected"
           /\ (Fetched /\ n >= 1) => Len(loop.sleeps) = n - 1
           /\ (Fetched /\ n >= 1 /\ loop.attempts[n].out = "ok")
              => loop.data # None /\ loop.data = loop.attempts[n].data
           /\ (Fetched /\ (n = 0 \/ loop.attempts[n].out = "rejected"))
              => loop.data = None /\ n = loop.max_retries

\* C24: fetch_btc_data always terminates: it calls the exchange at most
\* max_retries times with a fixed delay between the attempts, returns the
\* candles of the first attempt that succeeds without a further call, and
\* returns None after max_retries failures in a row.
C24_FetchTerminatesWithinMaxRetries ==
    []FetchInBounds /\ (Fetching ~> Fetched)

\* With the default max_retries of 10: ten failed calls, nine delays, None.
C24_Witness ==
    /\ Fetched
    /\ FetchLoop.max_retries = 10
    /\ Len(FetchLoop.attempts) = 10
    /\ Len(FetchLoop.sleeps) = 9
    /\ FetchLoop.data = None

----------------------------------------------------------------------------
(* The trading cycle on missing data *)

\* The fetch of the trading cycle gave no data, or fewer candles than the
\* window of the indicator.
FetchCameShort ==
    \E i \in DOMAIN calls :
       /\ calls[i].call = "fetch_btc_data"
       /\ calls[i].out = "rejected" \/ calls[i].arg < BOLLINGER_PERIOD

\* C25: a trading cycle whose fetch gives no data or fewer candles than the
\* window evaluates no signal, sizes nothing and submits no order, and its
\* signal path leaves the Position as it is, in memory and persisted: as it
\* was before the cycle when the cycle began FLAT, as the reconcile of the
\* same cycle left it otherwise.
C25_ShortDataSkipsTheCycle ==
    [][ (last_op' = "run_trading_cycle" /\ FetchCameShort')
        => /\ ~Made("add_bollinger_bands")' /\ ~Made("check_trade_signal")'
           /\ ~Made("get_trade_quantity")' /\ ~Made("enter_long_trade")'
           /\ ~SubmittedAnyOrder'
           /\ position' = position
           /\ IF InTrade(trade_state)
              THEN /\ trade_state' = [trade_state EXCEPT !.in_trade = FALSE]
                   /\ store' \in {store, Some(trade_state')}
              ELSE /\ trade_state' = trade_state
                   /\ store' = store ]_vars

\* A cycle whose reconcile closed the trade and whose fetch then gave 5
\* candles: nothing was evaluated.
C25_Witness ==
    /\ last_op = "run_trading_cycle"
    /\ pre_in_trade /\ ~InTrade(trade_state)
    /\ \E i \in DOMAIN calls :
          calls[i].call = "fetch_btc_data" /\ calls[i].out = "ok" /\ calls[i].arg = 5
    /\ ~Made("check_trade_signal")

----------------------------------------------------------------------------
(* The target of an entry made by the trading cycle *)

\* The upper band of the candle the signal of the cycle was evaluated on.
SignalUpperBand ==
    LET i == CHOOSE j \in DOMAIN calls : calls[j].call = "latest_candle"
    IN  calls[i].arg.Upper_Band

\* The trading cycle entered a trade.
CycleEntered == last_op = "run_trading_cycle" /\ last_ret = TRUE

\* The price of the target order of the manager's trade, open on the
\* exchange, is p.
TargetOrderPrice(p) ==
    \E o \in open_orders :
       /\ o.orderId = trade_state.target_order_id
       /\ o.type = "LIMIT" /\ o.price = p

\* C26: on every successful entry made by the trading cycle the price of
\* the submitted target order and the persisted target_price are the upper
\* band of the candle the signal was evaluated on, rounded to 1 decimal.
C26_TargetIsSignalCandleUpperBand ==
    CycleEntered
    => /\ Made("latest_candle")
       /\ TargetOrderPrice(Round1(SignalUpperBand))
       /\ trade_state.target_price = Round1(SignalUpperBand)
       /\ PersistedInTrade(store)
       /\ Val(store).target_price = Round1(SignalUpperBand)

----------------------------------------------------------------------------
(* The trailing stop *)

\* The persisted record is IN_POSITION and its stop_loss_order_id is that
\* of a stop order open on the exchange (in the state the orders are in).
PersistedStopIsLive(file, orders) ==
    /\ PersistedInTrade(file)
    /\ \E o \in orders :
          o.orderId = Val(file).stop_loss_order_id /\ o.type = "STOP_MARKET"

\* C27: when update_trailing_stop is called in position, with the persisted
\* stop_loss_order_id that of a live stop order, then after it has
\* returned, with success or after an error anywhere between the
\* cancellation of the old stop and the placement of the new one, the
\* persisted stop_loss_order_id is again that of a live stop order.
C27_TrailingStopKeepsALiveStop ==
    [][ (/\ last_op' = "update_trailing_stop"
         /\ InTrade(trade_state)
         /\ PersistedStopIsLive(store, open_orders))
        => PersistedStopIsLive(store', open_orders') ]_vars

----------------------------------------------------------------------------
(* The reconcile on a failed query *)

\* C28: when the open-orders query of the reconcile fails,
\* check_trade_status returns False, the Position is left as it was in
\* memory (still in_trade, the same order ids) and in the store, nothing
\* is cancelled and nothing changes on the exchange, and a trading cycle
\* ends there: no fetch, no signal, no sizing, no entry, no order.
C28_FailedQueryLeavesEverything ==
    [][ (/\ last_op' \in {"check_trade_status", "run_trading_cycle"}
         /\ MadeWith("futures_get_open_orders", {"rejected"})')
        => /\ last_ret' = FALSE
           /\ last_op' = "run_trading_cycle" => trade_complete' = "False"
           /\ trade_state' = trade_state /\ InTrade(trade_state')
           /\ store' = store
           /\ open_orders' = open_orders /\ position' = position
           /\ \A i \in DOMAIN calls' :
                 calls'[i].call \in {"check_trade_status", "futures_get_open_orders"} ]_vars

\* A trading cycle in position, the stop order gone and the target order
\* open, whose query failed: the Position is still IN_POSITION in memory
\* and in the store and the target order still open.
C28_Witness ==
    /\ last_op = "run_trading_cycle"
    /\ MadeWith("futures_get_open_orders", {"rejected"})
    /\ InTrade(trade_state) /\ store = Some(trade_state)
    /\ OpenExitIds = {trade_state.target_order_id}
    /\ trade_complete = "False"

----------------------------------------------------------------------------
(* The reconcile, eventually *)

\* The system is IN_POSITION, in memory and in the store, and one of the
\* exit orders of the trade has left the open orders of the exchange.
ExitOrderLeft ==
    /\ InTrade(trade_state) /\ PersistedInTrade(store)
    /\ Cardinality(OpenExitIds) < 2

\* The persisted state is FLAT.
StoreSaysFlat == store # None /\ ~Val(store).in_trade

\* The first trading cycle whose open-orders query succeeds after an exit
\* order has left leaves the persisted state FLAT.
FirstGoodCycleSettles ==
    [][ (/\ last_op' = "run_trading_cycle"
         /\ MadeWith("futures_get_open_orders", {"ok"})'
         /\ ExitOrderLeft)
        => StoreSaysFlat' ]_vars

\* C29: if the system is IN_POSITION and one of its exit orders has left
\* the open orders, then, trading cycles being invoked again and again and
\* the open-orders query succeeding at last, the persisted state becomes
\* FLAT, at the latest in the first cycle whose query succeeds.
C29_ExitEventuallyPersistedFlat ==
    /\ ExitOrderLeft ~> StoreSaysFlat
    /\ FirstGoodCycleSettles

\* check_trade_status has marked the position FLAT, and the store says so.
MarkedFlat == ReconcileRan /\ last_ret = TRUE /\ PersistedFlat

\* The exit orders of the trade that trade_state records.
RecordedExitIds ==
    {trade_state.stop_loss_order_id, trade_state.target_order_id}

\* C30: once check_trade_status has marked the position FLAT and the store
\* says FLAT, neither the stop order nor the target order of the closed
\* trade is open on the exchange.
C30_NoExitOrderOutlivesTheTrade ==
    MarkedFlat => RecordedExitIds \cap OpenOrderIds(open_orders) = {}

----------------------------------------------------------------------------
(* The order of a trading cycle *)

\* Where the call log of the last operation has the call.
Places(call) == { i \in DOMAIN calls : calls[i].call = call }

\* The fetch of the cycle gave the candles run_trading_cycle asks for.
FetchGaveEnough ==
    \E i \in Places("fetch_btc_data") :
       calls[i].out = "ok" /\ calls[i].arg >= MinCandles

\* The signal of the cycle fired: its candle was logged.
SignalFired == Made("latest_candle")

\* The quantity the cycle called enter_long_trade with.
EnteredQuantity ==
    calls[CHOOSE i \in Places("enter_long_trade") : TRUE].arg

\* The reconcile of the cycle returned True.
ReconcileClosed == last_op = "run_trading_cycle" /\ trade_complete = "True"

\* C31: a trading cycle whose reconcile returns True goes on in the same
\* invocation to fetch the candles and, given enough of them, to evaluate
\* the signal; when the signal fires it calls enter_long_trade in that
\* invocation, which submits the market buy, and an accepted buy opens the
\* new position.  In every cycle check_trade_status is called at most
\* once, enter_long_trade at most once, and check_trade_status before
\* enter_long_trade.
C31_ClosingCycleGoesOnToTheSignal ==
    [][ last_op' = "run_trading_cycle"
        => /\ TimesMade("check_trade_status")' <= 1
           /\ TimesMade("enter_long_trade")' <= 1
           /\ \A i \in Places("check_trade_status")', j \in Places("enter_long_trade")' :
                 i < j
           /\ ReconcileClosed'
              => /\ Made("check_trade_status")'
                 /\ \E i \in Places("check_trade_status")', j \in Places("fetch_btc_data")' :
                       i < j
                 /\ FetchGaveEnough' => Made("check_trade_signal")'
                 /\ SignalFired'
                    => /\ Made("enter_long_trade")' /\ Made(MARKET)'
                       /\ MadeWith(MARKET, {"ok"})'
                          => position' = position + EnteredQuantity' ]_vars

\* A cycle whose reconcile closed the trade after the stop was triggered,
\* whose signal fired and whose market buy was accepted: the position is
\* open again at the end of the same invocation.
C31_Witness ==
    /\ ReconcileClosed /\ pre_in_trade
    /\ Made(STOP_TRIGGERED)
    /\ SignalFired
    /\ TimesMade("check_trade_status") = 1 /\ TimesMade("enter_long_trade") = 1
    /\ MadeWith(MARKET, {"ok"})
    /\ position = EnteredQuantity /\ position > 0
=============================================================================
